---- MODULE Spec2Model ----
(***************************************************************************)
(* Model of the elevator control system (elevator.py): the Elevator state  *)
(* machine (call_floor, move, append_passenger, remove_passenger), its     *)
(* queue scheduling (_sort_queue) and the Passenger objects that ride it.  *)
(*                                                                         *)
(* Every public method is one action.  A method body is translated to an   *)
(* operator on a record of the object's fields; an exception is recorded   *)
(* in the field err and keeps the assignments made before it was raised,   *)
(* as in Python.                                                           *)
(***************************************************************************)
EXTENDS Integers, Sequences, FiniteSets

\* ------------------------------------------------------------------ bounds
\* Elevator(max_capacity, floors_count): the constructor's parameters.
floors_count == 4
max_capacity == 2
\* How many Passenger objects exist.
NumPassengers == 3

\* ------------------------------------------------------- ElevatorDirection
DOWN == -1
IDLE == 0
UP == 1

\* ---------------------------------------------------------------- state
VARIABLES
  current_floor,  \* Elevator._current_floor
  queue,          \* Elevator._queue, a list of floors
  direction,      \* Elevator._direction, as the enum's value
  passengers,     \* Elevator._passengers, a set of Passenger objects (ids)
  is_open,        \* Elevator._is_open
  is_moving,      \* Elevator._is_moving
  observer,       \* Elevator._observer
  op,             \* the last public call: <<method, argument>>
  entry,          \* the object's fields on entry to that call
  err,            \* the exception that call raised, or NoError
  events,         \* the observer notifications that call emitted, in order
  draining,       \* TRUE once the driver has stopped issuing call_floor
  drain_from,     \* <<current_floor, direction, is_open, queue>> when
                  \* draining began
  moves,          \* number of move() calls since draining began
  travel,         \* sign of the last floor change since draining began
  reversals,      \* number of changes of travel since draining began
  passengers_waiting,           \* simulation: passengers waiting for the lift
  passengers_skipped_elevator,  \* simulation: passengers who failed to board
  caught,         \* exceptions the observer's callback caught during that call
  simulation      \* simulation: minute, position in its loop, requests made

vars == <<current_floor, queue, direction, passengers, is_open, is_moving,
          observer, op, entry, err, events, draining, drain_from, moves,
          travel, reversals, passengers_waiting, passengers_skipped_elevator,
          caught, simulation>>

NoError == "none"

\* ------------------------------------------------------------ helpers
Min(a, b) == IF a < b THEN a ELSE b
Max(a, b) == IF a > b THEN a ELSE b

\* Python's `x in list`.
InList(x, l) == \E i \in 1..Len(l) : l[i] = x

\* Python's list.remove(x): drops the first occurrence of x.
ListRemove(l, x) ==
  LET i == CHOOSE k \in 1..Len(l) : l[k] = x /\ \A j \in 1..(k - 1) : l[j] # x
  IN  [j \in 1..(Len(l) - 1) |-> IF j < i THEN l[j] ELSE l[j + 1]]

\* raise: the fields keep what was assigned so far.
Raise(s, e) == [s EXCEPT !.err = e]

\* What Elevator._observer can hold.  Built without an observer, the
\* elevator stores the class DefaultObserver itself, not an instance of it;
\* otherwise it stores the object it was given, here an IElevatorObserver
\* whose callbacks do nothing.
DefaultObserver == "class DefaultObserver"
NoOpObserver == "IElevatorObserver()"
Observers == {DefaultObserver, NoOpObserver}

\* self._observer.on_xxx(self, ...): on an observer object the callback runs;
\* on the class the call binds the elevator to the callback's `self`, one
\* positional argument is missing and Python raises TypeError.
\* The observer simulate_elevator_activity installs with set_observer.
PassengersElevatorObserver == "PassengersElevatorObserver()"

\* Its on_open_doors callback, defined below with the methods it calls.
RECURSIVE on_open_doors(_)

Notify(s, e) ==
  IF s.observer = DefaultObserver
    THEN Raise(s, "TypeError")
    ELSE IF s.observer = PassengersElevatorObserver /\ e = "on_open_doors"
           THEN on_open_doors([s EXCEPT !.events = Append(@, e)])
           ELSE [s EXCEPT !.events = Append(@, e)]

\* Statement sequencing: F runs on the object s evaluates to, unless an
\* exception is propagating.  (s is bound once, as a value.)
Then(s, F(_)) ==
  CHOOSE t \in {IF r.err # NoError THEN r ELSE F(r) : r \in {s}} : TRUE

\* --------------------------------------------------------------- Passenger
\* Passenger(current_floor, destination_floor), identified by its id.
PassengerIds == 1..NumPassengers
passenger_current_floor(p) == (((p - 1) \div 2) % floors_count) + 1
passenger_destination_floor(p) ==
  ((passenger_current_floor(p) + p - 1) % floors_count) + 1

\* ---------------------------------------------------------------- Elevator
\* _move_up without the clamp at the top floor.
_move_up_unclamped(s) == [s EXCEPT !.current_floor = s.current_floor + 1]

_move_up(s) ==
  [s EXCEPT !.current_floor = Min(s.current_floor + 1, floors_count)]

_move_down(s) ==
  [s EXCEPT !.current_floor = Max(s.current_floor - 1, 1)]

\* _update_direction that reports Idle once the head of the queue is the
\* floor the elevator is on.
_update_direction_idle_at_head(s) ==
  IF s.queue # <<>>
    THEN IF s.current_floor < s.queue[1]
           THEN [s EXCEPT !.direction = UP]
           ELSE IF s.current_floor > s.queue[1]
                  THEN [s EXCEPT !.direction = DOWN]
                  ELSE [s EXCEPT !.direction = IDLE]
    ELSE [s EXCEPT !.direction = IDLE]

_update_direction(s) ==
  IF s.queue # <<>>
    THEN IF s.current_floor < s.queue[1]
           THEN [s EXCEPT !.direction = UP]
           ELSE IF s.current_floor > s.queue[1]
                  THEN [s EXCEPT !.direction = DOWN]
                  ELSE s
    ELSE [s EXCEPT !.direction = IDLE]

\* _open_the_doors that leaves the floor it arrived at in the queue.
_open_the_doors_keeps_floor(s) ==
  IF s.is_moving
    THEN Raise(s, "ElevatorIsOpenedTheDoorsWhileMoving")
    ELSE IF ~InList(s.current_floor, s.queue)
           THEN Raise(s, "ValueError")
           ELSE Notify([s EXCEPT !.is_open = TRUE], "on_open_doors")

_open_the_doors(s) ==
  IF s.is_moving
    THEN Raise(s, "ElevatorIsOpenedTheDoorsWhileMoving")
    ELSE IF ~InList(s.current_floor, s.queue)
           THEN Raise(s, "ValueError")
           ELSE Notify([s EXCEPT !.queue = ListRemove(@, s.current_floor),
                                 !.is_open = TRUE],
                       "on_open_doors")

_close_the_doors(s) == Notify([s EXCEPT !.is_open = FALSE], "on_close_doors")

_stop_moving(s) == Notify([s EXCEPT !.is_moving = FALSE], "on_stop")

\* _start_moving that sets the flag before it looks at the doors.
_start_moving_late_check(s) ==
  IF s.is_open
    THEN Raise([s EXCEPT !.is_moving = TRUE], "ElevatorIsMoveWithOpenDoors")
    ELSE Notify([s EXCEPT !.is_moving = TRUE], "on_moving")

_start_moving(s) ==
  IF s.is_open
    THEN Raise(s, "ElevatorIsMoveWithOpenDoors")
    ELSE Notify([s EXCEPT !.is_moving = TRUE], "on_moving")

\* key_func without the offset that puts the floors behind after those ahead.
key_func_no_offset(floor, c, d) ==
  IF d * (floor - c) > 0
    THEN d * (floor - c)
    ELSE d * (c - floor)

\* key_func of _sort_queue, for the elevator at floor c with direction d.
key_func(floor, c, d) ==
  IF d * (floor - c) > 0
    THEN d * (floor - c)
    ELSE d * (c - floor) + floors_count

\* list.sort(key=...): a stable ascending sort, here by insertion.
RECURSIVE SortByKey(_, _, _)
SortByKey(l, c, d) ==
  IF l = <<>> THEN <<>>
  ELSE LET n    == Len(l)
           rest == SortByKey(SubSeq(l, 1, n - 1), c, d)
           x    == l[n]
           \* x goes after every element whose key is <= its own
           pos  == Cardinality({i \in 1..Len(rest) :
                                  key_func(rest[i], c, d) <= key_func(x, c, d)})
       IN  SubSeq(rest, 1, pos) \o <<x>> \o SubSeq(rest, pos + 1, Len(rest))

\* _sort_queue as a plain ascending sort of the floors.
_sort_queue_ascending(s) == [s EXCEPT !.queue = SortByKey(s.queue, 0, UP)]

_sort_queue(s) ==
  [s EXCEPT !.queue = SortByKey(s.queue, s.current_floor, s.direction)]

\* call_floor(floor), statement by statement.
\* call_floor that appends without looking for the floor in the queue.
call_floor_append_always(s, floor) ==
  _sort_queue([s EXCEPT !.queue = Append(@, floor)])

\* call_floor that appends and leaves the queue as it is.
call_floor_append_unsorted(s, floor) ==
  IF ~InList(floor, s.queue) /\ floor # 0
    THEN [s EXCEPT !.queue = Append(@, floor)]
    ELSE s

call_floor_append(s, floor) ==
  IF ~InList(floor, s.queue) /\ floor # 0
    THEN _sort_queue([s EXCEPT !.queue = Append(@, floor)])
    ELSE s

\* call_floor that never opens the doors itself.
call_floor_idle_no_open(s, floor) ==
  IF s.direction = IDLE THEN _update_direction(s) ELSE s

\* call_floor that opens the doors at the requested floor whatever the
\* direction.
call_floor_idle_any_direction(s, floor) ==
  LET arrive(u) == IF u.current_floor = floor /\ ~u.is_moving
                     THEN _open_the_doors(u)
                     ELSE u
  IN  IF s.direction = IDLE THEN Then(_update_direction(s), arrive)
                            ELSE arrive(s)

\* call_floor that recomputes the direction on every call, Idle or not.
call_floor_idle_unguarded(s, floor) ==
  LET arrive(u) == IF s.direction = IDLE /\ u.current_floor = floor
                     THEN _open_the_doors(u)
                     ELSE u
  IN  Then(_update_direction(s), arrive)

call_floor_idle(s, floor) ==
  IF s.direction = IDLE
    THEN LET arrive(u) == IF u.current_floor = floor
                            THEN _open_the_doors(u)
                            ELSE u
         IN  Then(_update_direction(s), arrive)
    ELSE s

\* call_floor whose range check forgets the upper end.
call_floor_no_upper_bound(s, floor) ==
  IF floor < 1
    THEN Raise(s, "ElevatorFloorOutOfTheRangeException")
    ELSE LET idle(u) == call_floor_idle(u, floor)
         IN  Then(call_floor_append(s, floor), idle)

call_floor(s, floor) ==
  IF floor < 1 \/ floor > floors_count
    THEN Raise(s, "ElevatorFloorOutOfTheRangeException")
    ELSE LET idle(u) == call_floor_idle(u, floor)
         IN  Then(call_floor_append(s, floor), idle)

\* move(), statement by statement.
move_close(s) == IF s.is_open THEN _close_the_doors(s) ELSE s

\* move() without the branch that goes down.
move_step_up_only(s) == IF s.direction = UP THEN _move_up(s) ELSE s

move_step(s) ==
  IF s.direction = UP THEN _move_up(s)
  ELSE IF s.direction = DOWN THEN _move_down(s)
  ELSE s

move_travel(s) ==
  IF s.direction # IDLE
    THEN Then(_start_moving(s), move_step)
    ELSE s

\* move() that opens the doors without stopping first.
move_arrive_no_stop(s) ==
  IF InList(s.current_floor, s.queue) THEN _open_the_doors(s) ELSE s

\* move() that sets the door flag itself on arrival, helpers bypassed.
move_arrive_inline(s) ==
  IF InList(s.current_floor, s.queue)
    THEN Notify([s EXCEPT !.queue = ListRemove(@, s.current_floor),
                          !.is_open = TRUE],
                "on_open_doors")
    ELSE s

move_arrive(s) ==
  IF InList(s.current_floor, s.queue)
    THEN Then(_stop_moving(s), _open_the_doors)
    ELSE s

move(s) ==
  Then(Then(Then(move_close(s), _update_direction), move_travel), move_arrive)

\* is_full with > for ==.
is_full_strict(s) == Cardinality(s.passengers) > max_capacity

is_full(s) == Cardinality(s.passengers) = max_capacity

\* append_passenger without the capacity check.
append_passenger_no_capacity_check(s, p) ==
  IF ~s.is_open THEN Raise(s, "ElevatorDoorsClosed")
  ELSE IF s.current_floor # passenger_current_floor(p)
    THEN Raise(s, "ElevatorPassengerFloorsMismatch")
  ELSE Notify([s EXCEPT !.passengers = @ \cup {p}], "on_passenger_enter")

append_passenger(s, p) ==
  IF is_full(s) THEN Raise(s, "ElevatorIsFullException")
  ELSE IF ~s.is_open THEN Raise(s, "ElevatorDoorsClosed")
  ELSE IF s.current_floor # passenger_current_floor(p)
    THEN Raise(s, "ElevatorPassengerFloorsMismatch")
  ELSE Notify([s EXCEPT !.passengers = @ \cup {p}], "on_passenger_enter")

remove_passenger(s, p) ==
  IF p \notin s.passengers THEN Raise(s, "PassengerNotFoundException")
  ELSE Notify([s EXCEPT !.passengers = @ \ {p}], "on_passenger_exit")

\* Passenger.enter_elevator: board, then request the destination floor.
enter_elevator(s, p) ==
  LET request(u) == call_floor(u, passenger_destination_floor(p))
  IN  Then(append_passenger(s, p), request)

\* Passenger.exit_elevator and Passenger.call_elevator.
exit_elevator(s, p) == remove_passenger(s, p)

call_elevator(s, p) == call_floor(s, passenger_current_floor(p))

\* PassengersElevatorObserver.on_open_doors: the passengers whose destination
\* is this floor leave, then the waiting passengers of this floor try to
\* enter in the order of the waiting list; one who fails is put on the
\* skipped list and the exception is swallowed.
RECURSIVE passengers_exit(_, _)
passengers_exit(s, to_exit) ==
  IF to_exit = {} THEN s
  ELSE LET p       == CHOOSE x \in to_exit : \A y \in to_exit : x <= y
           rest(u) == passengers_exit(u, to_exit \ {p})
       IN  Then(exit_elevator(s, p), rest)

try_enter(s, p) ==
  CHOOSE t \in
    {IF r.err = NoError
       THEN [r EXCEPT !.passengers_waiting = ListRemove(@, p)]
       ELSE [r EXCEPT !.err = NoError,
                      !.caught = Append(@, r.err),
                      !.passengers_skipped_elevator = Append(@, p)]
     : r \in {enter_elevator(s, p)}} : TRUE

RECURSIVE passengers_enter(_, _)
passengers_enter(s, to_enter) ==
  IF to_enter = <<>> THEN s
  ELSE LET rest(u) == passengers_enter(u, Tail(to_enter))
       IN  Then(try_enter(s, Head(to_enter)), rest)

on_open_doors(s) ==
  LET to_exit  == {p \in s.passengers :
                     passenger_destination_floor(p) = s.current_floor}
      enter(u) ==
        passengers_enter(u, SelectSeq(u.passengers_waiting,
          LAMBDA p : passenger_current_floor(p) = u.current_floor))
  IN  Then(passengers_exit(s, to_exit), enter)

\* ------------------------------------------------------------- actions
\* The driver's state when simulate_elevator_activity is not running.
NoSimulation ==
  [minute |-> 0, step |-> "none", requested |-> {}, skipped_index |-> 0]

\* The object on entry to a public call.
Self ==
  [current_floor |-> current_floor, queue |-> queue, direction |-> direction,
   passengers |-> passengers, is_open |-> is_open, is_moving |-> is_moving,
   observer |-> observer, err |-> NoError, events |-> <<>>,
   passengers_waiting |-> passengers_waiting,
   passengers_skipped_elevator |-> passengers_skipped_elevator,
   caught |-> <<>>]

\* The object when the call returns (or raises).
Returns(s) ==
  /\ entry' = Self
  /\ current_floor' = s.current_floor
  /\ queue' = s.queue
  /\ direction' = s.direction
  /\ passengers' = s.passengers
  /\ is_open' = s.is_open
  /\ is_moving' = s.is_moving
  /\ observer' = s.observer
  /\ err' = s.err
  /\ events' = s.events
  /\ passengers_waiting' = s.passengers_waiting
  /\ passengers_skipped_elevator' = s.passengers_skipped_elevator
  /\ caught' = s.caught

Sign(n) == IF n > 0 THEN 1 ELSE IF n < 0 THEN -1 ELSE 0

\* Bookkeeping of the direction of travel while draining.
Travelled(delta) ==
  IF draining /\ delta # 0
    THEN /\ travel' = Sign(delta)
         /\ reversals' = IF travel # 0 /\ travel # Sign(delta)
                           THEN reversals + 1 ELSE reversals
    ELSE UNCHANGED <<travel, reversals>>

\* move() calls are counted up to one more than any run can need.
MaxMoves == floors_count + 1

\* The floors a driver may request, out-of-range ones included.
CallInputs == 0..(floors_count + 1)

\* __init__ that numbers the ground floor 0.
Init_ground_floor_zero ==
  /\ current_floor = 0
  /\ queue = <<>>
  /\ direction = IDLE
  /\ passengers = {}
  /\ is_open = FALSE
  /\ is_moving = FALSE
  /\ observer \in Observers
  /\ passengers_waiting = <<>>
  /\ passengers_skipped_elevator = <<>>
  /\ op = <<"__init__", 0>>
  /\ entry = Self
  /\ err = NoError
  /\ events = <<>>
  /\ draining = FALSE
  /\ drain_from = <<0, IDLE, FALSE, <<>>>>
  /\ moves = 0
  /\ caught = <<>>
  /\ simulation = NoSimulation
  /\ travel = 0
  /\ reversals = 0

Init ==
  /\ current_floor = 1
  /\ queue = <<>>
  /\ direction = IDLE
  /\ passengers = {}
  /\ is_open = FALSE
  /\ is_moving = FALSE
  /\ observer \in Observers
  /\ passengers_waiting = <<>>
  /\ passengers_skipped_elevator = <<>>
  /\ op = <<"__init__", 0>>
  /\ entry = Self
  /\ err = NoError
  /\ events = <<>>
  /\ draining = FALSE
  /\ drain_from = <<0, IDLE, FALSE, <<>>>>
  /\ moves = 0
  /\ caught = <<>>
  /\ simulation = NoSimulation
  /\ travel = 0
  /\ reversals = 0

CallFloor ==
  /\ ~draining
  /\ \E floor \in CallInputs :
       /\ \E r \in {call_floor(Self, floor)} : Returns(r)
       /\ op' = <<"call_floor", floor>>
  /\ UNCHANGED <<draining, drain_from, moves, travel, reversals, simulation>>

Move ==
  /\ \E r \in {move(Self)} : Returns(r)
  /\ op' = <<"move", 0>>
  /\ Travelled(current_floor' - current_floor)
  /\ moves' = IF draining /\ moves < MaxMoves THEN moves + 1 ELSE moves
  /\ UNCHANGED <<draining, drain_from, simulation>>

AppendPassenger ==
  /\ \E p \in PassengerIds :
       /\ \E r \in {append_passenger(Self, p)} : Returns(r)
       /\ op' = <<"append_passenger", p>>
  /\ UNCHANGED <<draining, drain_from, moves, travel, reversals, simulation>>

RemovePassenger ==
  /\ \E p \in PassengerIds :
       /\ \E r \in {remove_passenger(Self, p)} : Returns(r)
       /\ op' = <<"remove_passenger", p>>
  /\ UNCHANGED <<draining, drain_from, moves, travel, reversals, simulation>>

EnterElevator ==
  /\ ~draining
  /\ \E p \in PassengerIds :
       /\ \E r \in {enter_elevator(Self, p)} : Returns(r)
       /\ op' = <<"enter_elevator", p>>
  /\ UNCHANGED <<draining, drain_from, moves, travel, reversals, simulation>>

\* The driver stops requesting floors; from now on it only calls move() and
\* lets passengers on and off.
StopCalls ==
  /\ ~draining
  /\ draining' = TRUE
  /\ drain_from' = <<current_floor, direction, is_open, queue>>
  /\ UNCHANGED <<current_floor, queue, direction, passengers, is_open,
                 is_moving, observer, op, entry, err, events, moves,
                 travel, reversals, passengers_waiting,
                 passengers_skipped_elevator, caught, simulation>>

Next ==
  \/ CallFloor
  \/ Move
  \/ AppendPassenger
  \/ RemovePassenger
  \/ EnterElevator
  \/ StopCalls

Spec == Init /\ [][Next]_vars


\* The driver of the drain scenario: floors are requested, then only move()
\* is called, once per time unit, forever.
DrainNext ==
  \/ CallFloor
  \/ Move
  \/ StopCalls

DrainSpec == Init /\ [][DrainNext]_vars /\ WF_vars(Move)

\* _sort_queue as a function of (current_floor, direction, queue): every
\* floor, both directions and every list of distinct floors.
DistinctLists ==
  {l \in UNION {[1..n -> 1..floors_count] : n \in 0..floors_count} :
     \A i, j \in 1..Len(l) : l[i] = l[j] => i = j}

SortInit ==
  /\ current_floor \in 1..floors_count
  /\ direction \in {UP, DOWN}
  /\ queue \in DistinctLists
  /\ passengers = {}
  /\ is_open = FALSE
  /\ is_moving = FALSE
  /\ observer \in Observers
  /\ passengers_waiting = <<>>
  /\ passengers_skipped_elevator = <<>>
  /\ op = <<"__init__", 0>>
  /\ entry = Self
  /\ err = NoError
  /\ events = <<>>
  /\ draining = FALSE
  /\ drain_from = <<0, IDLE, FALSE, <<>>>>
  /\ moves = 0
  /\ caught = <<>>
  /\ simulation = NoSimulation
  /\ travel = 0
  /\ reversals = 0

SortQueue ==
  /\ \E r \in {_sort_queue(Self)} : Returns(r)
  /\ op' = <<"_sort_queue", 0>>
  /\ UNCHANGED <<draining, drain_from, moves, travel, reversals, simulation>>

SortNext == SortQueue

SortSpec == SortInit /\ [][SortNext]_vars

\* _open_the_doors and _start_moving called on their own, as
\* test_elevator_open_and_close_doors and test_elevator_start_and_stop_moving
\* do after setting the fields: any floor and direction, a queue in the order
\* _sort_queue leaves it in (any order while Idle, where all keys are equal),
\* doors and motion never both on.
HelperQueues(c, d) == {SortByKey(l, c, d) : l \in DistinctLists}

HelperInit ==
  /\ current_floor \in 1..floors_count
  /\ direction \in {DOWN, IDLE, UP}
  /\ queue \in HelperQueues(current_floor, direction)
  /\ passengers = {}
  /\ is_open \in BOOLEAN
  /\ is_moving \in BOOLEAN
  /\ ~(is_open /\ is_moving)
  /\ observer \in Observers
  /\ passengers_waiting = <<>>
  /\ passengers_skipped_elevator = <<>>
  /\ op = <<"__init__", 0>>
  /\ entry = Self
  /\ err = NoError
  /\ events = <<>>
  /\ draining = FALSE
  /\ drain_from = <<0, IDLE, FALSE, <<>>>>
  /\ moves = 0
  /\ caught = <<>>
  /\ simulation = NoSimulation
  /\ travel = 0
  /\ reversals = 0

OpenTheDoors ==
  /\ \E r \in {_open_the_doors(Self)} : Returns(r)
  /\ op' = <<"_open_the_doors", 0>>
  /\ UNCHANGED <<draining, drain_from, moves, travel, reversals, simulation>>

StartMoving ==
  /\ \E r \in {_start_moving(Self)} : Returns(r)
  /\ op' = <<"_start_moving", 0>>
  /\ UNCHANGED <<draining, drain_from, moves, travel, reversals, simulation>>

HelperNext ==
  \/ OpenTheDoors
  \/ StartMoving

HelperSpec == HelperInit /\ [][HelperNext]_vars

\* simulate_elevator_activity: each minute at most one new passenger calls the
\* elevator and joins the waiting list, move() is called once, and the
\* passengers who failed to board call the elevator again.
total_simulation_time == 5

\* The passengers the simulation can generate: destination different from
\* origin; those of the two lowest floors, of which more start at floor 1
\* than the elevator holds.
SimulationPassengers ==
  {p \in 1..(2 * floors_count + 1) :
     /\ passenger_current_floor(p) <= 2
     /\ passenger_destination_floor(p) # passenger_current_floor(p)}

SimulationInit ==
  /\ current_floor = 1
  /\ queue = <<>>
  /\ direction = IDLE
  /\ passengers = {}
  /\ is_open = FALSE
  /\ is_moving = FALSE
  /\ observer = PassengersElevatorObserver
  /\ passengers_waiting = <<>>
  /\ passengers_skipped_elevator = <<>>
  /\ op = <<"set_observer", 0>>
  /\ entry = Self
  /\ err = NoError
  /\ events = <<>>
  /\ draining = FALSE
  /\ drain_from = <<0, IDLE, FALSE, <<>>>>
  /\ moves = 0
  /\ caught = <<>>
  /\ simulation = [minute |-> 0, step |-> "request", requested |-> {},
                   skipped_index |-> 0]
  /\ travel = 0
  /\ reversals = 0

\* The loop runs while no call has raised and minutes are left.
SimulationRunning(step) ==
  /\ simulation.step = step
  /\ simulation.minute < total_simulation_time
  /\ err = NoError

PassengerRequest ==
  /\ SimulationRunning("request")
  /\ \E p \in SimulationPassengers \ simulation.requested :
       /\ \E r \in {call_elevator(Self, p)} :
            Returns(IF r.err = NoError
                      THEN [r EXCEPT !.passengers_waiting = Append(@, p)]
                      ELSE r)
       /\ op' = <<"call_floor", passenger_current_floor(p)>>
       /\ simulation' = [simulation EXCEPT !.step = "move",
                                           !.requested = @ \cup {p}]
  /\ UNCHANGED <<draining, drain_from, moves, travel, reversals>>

NoRequest ==
  /\ SimulationRunning("request")
  /\ simulation' = [simulation EXCEPT !.step = "move"]
  /\ UNCHANGED <<current_floor, queue, direction, passengers, is_open,
                 is_moving, observer, op, entry, err, events, draining,
                 drain_from, moves, travel, reversals, passengers_waiting,
                 passengers_skipped_elevator, caught>>

SimulationMove ==
  /\ SimulationRunning("move")
  /\ \E r \in {move(Self)} : Returns(r)
  /\ op' = <<"move", 0>>
  /\ simulation' = [simulation EXCEPT !.step = "skipped"]
  /\ UNCHANGED <<draining, drain_from, moves, travel, reversals>>

\* One round of the loop over the skipped list: its next passenger calls the
\* elevator and joins the waiting list again.
SkippedCall ==
  /\ SimulationRunning("skipped")
  /\ simulation.skipped_index < Len(passengers_skipped_elevator)
  /\ \E p \in {passengers_skipped_elevator[simulation.skipped_index + 1]} :
       /\ \E r \in {call_elevator(Self, p)} :
            Returns(IF r.err = NoError
                      THEN [r EXCEPT !.passengers_waiting = Append(@, p)]
                      ELSE r)
       /\ op' = <<"call_floor", passenger_current_floor(p)>>
  /\ simulation' = [simulation EXCEPT !.skipped_index = @ + 1]
  /\ UNCHANGED <<draining, drain_from, moves, travel, reversals>>

\* The skipped list is exhausted: the minute ends.
EndOfMinute ==
  /\ SimulationRunning("skipped")
  /\ simulation.skipped_index = Len(passengers_skipped_elevator)
  /\ passengers_skipped_elevator' = <<>>
  /\ simulation' = [simulation EXCEPT !.step = "request", !.minute = @ + 1,
                                      !.skipped_index = 0]
  /\ UNCHANGED <<current_floor, queue, direction, passengers, is_open,
                 is_moving, observer, op, entry, err, events, draining,
                 drain_from, moves, travel, reversals, passengers_waiting,
                 caught>>

SimulationNext ==
  \/ PassengerRequest
  \/ NoRequest
  \/ SimulationMove
  \/ SkippedCall
  \/ EndOfMinute

SimulationSpec == SimulationInit /\ [][SimulationNext]_vars

\* ------------------------------------------------------------- properties
Emitted(e) == InList(e, events)

NoDuplicates(l) == \A i, j \in 1..Len(l) : l[i] = l[j] => i = j

\* C1 - Mutual exclusion: in every state reachable by call_floor, move,
\* append_passenger and remove_passenger, is_moving and is_open are never
\* both true.
C1_MutualExclusion == ~(is_moving /\ is_open)

\* move() found the doors open, closed them, travelled one floor and opened
\* them again on arrival.
C1_Witness ==
  /\ op[1] = "move"
  /\ entry.is_open
  /\ events = <<"on_close_doors", "on_moving", "on_stop", "on_open_doors">>
  /\ is_open /\ ~is_moving

\* C2 - Range invariant: whatever move() and call_floor() calls are made
\* (rejected out-of-range calls included), 1 <= current_floor <= floors_count.
C2_RangeInvariant == 1 <= current_floor /\ current_floor <= floors_count

\* move() was told to go up from the top floor (or down from the bottom one)
\* and the floor stayed where it was.
C2_Witness ==
  /\ op[1] = "move"
  /\ Emitted("on_moving")
  /\ current_floor = entry.current_floor
  /\ current_floor \in {1, floors_count}

\* C6 - One floor per step, stop exactly at queued floors: move() changes
\* current_floor by at most one; when it returns the doors are open with
\* is_moving false iff the floor it is then on was in the queue during that
\* step, and then the floor has been removed: after move() the current floor
\* is never in the queue.
C6_OneFloorPerStep ==
  op[1] = "move" =>
    /\ current_floor - entry.current_floor \in {-1, 0, 1}
    /\ err = NoError =>
         ((is_open /\ ~is_moving) <=> InList(current_floor, entry.queue))
    /\ ~InList(current_floor, queue)

\* The same statement for an elevator that was given an observer object.
C6_OneFloorPerStepWithObserver ==
  observer = NoOpObserver => C6_OneFloorPerStep

\* C8 - The broken-elevator failures are unreachable: no sequence of
\* call_floor, move, append_passenger and remove_passenger calls raises
\* ElevatorIsOpenedTheDoorsWhileMoving or ElevatorIsMoveWithOpenDoors, and
\* opening the doors never fails because the current floor is not queued.
C8_NoBrokenElevator ==
  err \notin {"ElevatorIsOpenedTheDoorsWhileMoving",
              "ElevatorIsMoveWithOpenDoors", "ValueError"}

\* Both defensive checks were passed in one move(): it started moving with
\* the doors just closed and opened them after stopping.
C8_Witness ==
  /\ op[1] = "move"
  /\ entry.is_open /\ entry.is_moving = FALSE
  /\ Emitted("on_moving") /\ Emitted("on_open_doors")
  /\ err = NoError
  /\ queue = <<>>

\* C9 - Capacity invariant: the number of passengers aboard never exceeds
\* max_capacity, and append_passenger called with max_capacity aboard fails
\* with ElevatorIsFullException and leaves the passenger set unchanged.
C9_Capacity ==
  /\ Cardinality(passengers) <= max_capacity
  /\ (op[1] = "append_passenger"
      /\ Cardinality(entry.passengers) = max_capacity) =>
        /\ err = "ElevatorIsFullException"
        /\ passengers = entry.passengers

\* A passenger was refused by a full elevator whose doors were open at the
\* passenger's floor.
C9_Witness ==
  /\ op[1] = "append_passenger"
  /\ err = "ElevatorIsFullException"
  /\ is_open
  /\ passenger_current_floor(op[2]) = current_floor
  /\ op[2] \notin passengers

\* C10 - Queue dedup: the queue never holds the same floor twice, and
\* call_floor(f) with f already queued leaves the queue, contents and order,
\* unchanged.
C10_QueueDedup ==
  /\ NoDuplicates(queue)
  /\ (op[1] = "call_floor" /\ InList(op[2], entry.queue)) =>
        queue = entry.queue

\* call_floor(f) was called with f queued among other floors.
C10_Witness ==
  /\ op[1] = "call_floor"
  /\ InList(op[2], entry.queue)
  /\ Len(entry.queue) >= 2
  /\ err = NoError

\* The original statement of C7: direction is Idle iff the queue is empty.
C7_IdleIffEmpty == (direction = IDLE) <=> (queue = <<>>)

\* C7 (amended) - Direction Idle implies that the queue is empty, in every
\* state reachable by call_floor and move; an empty queue implies Idle only
\* once move() has been called on the empty queue (the direction is
\* recomputed at the start of move(), not when the last floor is served).
C7_IdleImpliesEmpty ==
  /\ direction = IDLE => queue = <<>>
  /\ (op[1] = "move" /\ entry.queue = <<>>) => direction = IDLE

\* move() ran on a queue emptied by serving its last floor and set Idle.
C7_Witness ==
  /\ op[1] = "move"
  /\ err = NoError
  /\ entry.queue = <<>>
  /\ entry.direction # IDLE
  /\ direction = IDLE

\* C3 - Drain liveness: if move() keeps being called and no further
\* call_floor arrives, every queued floor is eventually reached with the
\* doors open and removed from the queue, and the elevator ends with an
\* empty queue and direction Idle.
C3_DrainLiveness ==
  /\ \A f \in 1..floors_count :
       (draining /\ InList(f, queue)) ~>
         (current_floor = f /\ is_open /\ ~InList(f, queue))
  /\ [](draining => <>[](queue = <<>> /\ direction = IDLE))

\* The same statement for an elevator that was given an observer object.
C3_DrainLivenessWithObserver ==
  /\ \A f \in 1..floors_count :
       (observer = NoOpObserver /\ draining /\ InList(f, queue)) ~>
         (current_floor = f /\ is_open /\ ~InList(f, queue))
  /\ []((observer = NoOpObserver /\ draining) =>
         <>[](queue = <<>> /\ direction = IDLE))

\* C4 - SCAN sweep: with no further call_floor, repeated move() calls serve
\* every queued floor ahead in the current direction before reversing and the
\* remaining floors on the opposite sweep: the direction of travel reverses
\* at most once before the queue is empty, and not while a floor that was
\* ahead when the calls stopped is still queued.
C4_ScanSweep ==
  draining =>
    /\ reversals <= 1
    /\ reversals = 1 =>
         \A i \in 1..Len(queue) :
           drain_from[2] * (queue[i] - drain_from[1]) <= 0

\* The elevator has reversed once and still has floors to serve on the
\* opposite sweep.
C4_Witness ==
  /\ draining
  /\ reversals = 1
  /\ Len(queue) >= 2
  /\ drain_from[2] # IDLE

Range(l) == {l[i] : i \in 1..Len(l)}

Distance(f, c) == IF f >= c THEN f - c ELSE c - f

\* The floors of S, nearest to c first.
RECURSIVE NearestFirst(_, _)
NearestFirst(S, c) ==
  IF S = {} THEN <<>>
  ELSE LET f == CHOOSE x \in S : \A y \in S : Distance(x, c) <= Distance(y, c)
       IN  <<f>> \o NearestFirst(S \ {f}, c)

\* The reference SCAN order of the floors S for an elevator at c going d.
ScanOrder(S, c, d) ==
  LET ahead == {f \in S : (d = UP /\ f > c) \/ (d = DOWN /\ f < c)}
  IN  NearestFirst(ahead, c) \o NearestFirst(S \ ahead, c)

\* C5 - Sort correctness: for every current floor c, direction d in
\* {Up, Down} and queue of distinct floors, _sort_queue yields the reference
\* SCAN order: the floors strictly ahead of c in direction d by increasing
\* distance, then all the others (c itself, then those behind) by increasing
\* distance; the result is a permutation of the input.
C5_SortCorrectness ==
  op[1] = "_sort_queue" =>
    /\ queue = ScanOrder(Range(entry.queue), current_floor, direction)
    /\ Len(queue) = Len(entry.queue)
    /\ Range(queue) = Range(entry.queue)

\* A queue holding the current floor, floors ahead and floors behind, out of
\* order on entry, has been sorted.
C5_Witness ==
  /\ op[1] = "_sort_queue"
  /\ queue # entry.queue
  /\ InList(current_floor, queue)
  /\ \E i, j \in 1..Len(queue) :
       queue[i] < current_floor /\ queue[j] > current_floor

\* The fields a frame condition speaks about: everything but the passengers.
SameCar ==
  /\ queue = entry.queue
  /\ direction = entry.direction
  /\ current_floor = entry.current_floor
  /\ is_open = entry.is_open
  /\ is_moving = entry.is_moving

\* C11 - Range check on calls: call_floor(f) with f < 1 or f > floors_count
\* fails with FloorOutOfRange in every state and leaves the queue, direction,
\* current floor, door and motion state unchanged.
C11_CallFloorRangeCheck ==
  (op[1] = "call_floor" /\ (op[2] < 1 \/ op[2] > floors_count)) =>
    /\ err = "ElevatorFloorOutOfTheRangeException"
    /\ SameCar

\* A call above the top floor is rejected while the elevator is travelling
\* with other floors queued.
C11_Witness ==
  /\ op = <<"call_floor", floors_count + 1>>
  /\ err = "ElevatorFloorOutOfTheRangeException"
  /\ is_moving
  /\ Len(queue) >= 2

\* C13 - Calling the current floor while idle: call_floor(f) on an Idle
\* elevator standing at f opens the doors inside call_floor (afterwards
\* is_open, f not queued, direction still Idle, floor unchanged); in every
\* other accepted call (direction not Idle, or f another floor) call_floor
\* opens no door: the door state is as before and f is queued.
C13_CallCurrentFloorIdle ==
  (op[1] = "call_floor" /\ op[2] >= 1 /\ op[2] <= floors_count) =>
    IF entry.direction = IDLE /\ op[2] = entry.current_floor
      THEN /\ is_open
           /\ ~InList(op[2], queue)
           /\ direction = IDLE
           /\ current_floor = entry.current_floor
      ELSE /\ is_open = entry.is_open
           /\ ~Emitted("on_open_doors")
           /\ InList(op[2], queue)

\* An idle elevator away from the ground floor, doors closed, is called to
\* the floor it stands at.
C13_Witness ==
  /\ op[1] = "call_floor"
  /\ entry.direction = IDLE
  /\ op[2] = entry.current_floor
  /\ entry.current_floor > 1
  /\ ~entry.is_open
  /\ is_open

\* The other situation: the floor the elevator stands at is called while the
\* direction is Up, with the doors closed, and they stay closed.
C13_WitnessNotIdle ==
  /\ op[1] = "call_floor"
  /\ entry.direction = UP
  /\ op[2] = entry.current_floor
  /\ ~entry.is_open /\ ~entry.is_moving
  /\ ~is_open

\* The outcome the precedence rule gives append_passenger(p) in the state on
\* entry: full first, then closed doors, then the floor.
AppendOutcome(p) ==
  IF Cardinality(entry.passengers) = max_capacity
    THEN "ElevatorIsFullException"
  ELSE IF ~entry.is_open THEN "ElevatorDoorsClosed"
  ELSE IF entry.current_floor # passenger_current_floor(p)
    THEN "ElevatorPassengerFloorsMismatch"
  ELSE NoError

\* C14 - Boarding preconditions and their precedence: append_passenger fails
\* with ElevatorFull at capacity (whatever the doors and floor), otherwise
\* with DoorsClosed when the doors are closed (whatever the floor), otherwise
\* with FloorMismatch when the passenger's origin is not the current floor;
\* on every failure the passenger set is unchanged, on success exactly that
\* passenger is added, and nothing else changes.
C14_AppendPrecedence ==
  op[1] = "append_passenger" =>
    /\ err = AppendOutcome(op[2])
    /\ err # NoError => passengers = entry.passengers
    /\ err = NoError => passengers = entry.passengers \cup {op[2]}
    /\ SameCar

\* The same for an elevator that was given an observer object.
C14_AppendPrecedenceWithObserver ==
  observer # DefaultObserver => C14_AppendPrecedence

\* A passenger boards an elevator with one place left; a full elevator with
\* closed doors on another floor reports ElevatorFull.
C14_WitnessBoarded ==
  /\ op[1] = "append_passenger"
  /\ err = NoError
  /\ op[2] \notin entry.passengers
  /\ Cardinality(passengers) = max_capacity

C14_WitnessFullFirst ==
  /\ op[1] = "append_passenger"
  /\ err = "ElevatorIsFullException"
  /\ ~entry.is_open
  /\ entry.current_floor # passenger_current_floor(op[2])

\* C16 - Removing a passenger: remove_passenger(p) fails with
\* PassengerNotFound exactly when p is not aboard, the set unchanged;
\* otherwise it succeeds in any door and motion state and removes exactly p;
\* queue, direction, current floor, door and motion state are unchanged.
C16_RemovePassenger ==
  op[1] = "remove_passenger" =>
    /\ IF op[2] \in entry.passengers
         THEN /\ err = NoError
              /\ passengers = entry.passengers \ {op[2]}
         ELSE /\ err = "PassengerNotFoundException"
              /\ passengers = entry.passengers
    /\ SameCar

\* The same for an elevator that was given an observer object.
C16_RemovePassengerWithObserver ==
  observer # DefaultObserver => C16_RemovePassenger

\* A passenger leaves while the elevator is travelling with the doors closed.
C16_WitnessMoving ==
  /\ op[1] = "remove_passenger"
  /\ err = NoError
  /\ op[2] \in entry.passengers
  /\ is_moving

\* C15 - enter_elevator boards first and queues the destination second: if
\* append_passenger fails, enter_elevator fails with the same error and the
\* destination is not added (queue and passenger set unchanged); if it
\* succeeds, the passenger is aboard and the destination floor is queued.
C15_EnterBoardsThenQueues ==
  op[1] = "enter_elevator" =>
    /\ err = AppendOutcome(op[2])
    /\ err # NoError => /\ queue = entry.queue
                        /\ passengers = entry.passengers
    /\ err = NoError => /\ op[2] \in passengers
                        /\ InList(passenger_destination_floor(op[2]), queue)

\* The same for an elevator that was given an observer object.
C15_EnterBoardsThenQueuesWithObserver ==
  observer # DefaultObserver => C15_EnterBoardsThenQueues

\* A passenger enters and the destination joins a queue that held another
\* floor.
C15_WitnessEntered ==
  /\ op[1] = "enter_elevator"
  /\ err = NoError
  /\ op[2] \notin entry.passengers
  /\ Len(queue) = Len(entry.queue) + 1
  /\ entry.queue # <<>>

\* C18 - Initial state: a new elevator is at floor 1, Idle, doors closed, not
\* moving, with an empty queue and no passengers (so is_full is false when
\* max_capacity > 0).
C18_InitialState ==
  op[1] = "__init__" =>
    /\ current_floor = 1
    /\ direction = IDLE
    /\ ~is_open
    /\ ~is_moving
    /\ queue = <<>>
    /\ passengers = {}
    /\ max_capacity > 0 => ~is_full(Self)

\* The elevator as constructed without an observer, nothing called yet.
C18_Witness ==
  /\ op[1] = "__init__"
  /\ observer = DefaultObserver
  /\ entry = Self
  /\ ~draining

\* C19 - move() advances toward the head: in every reachable state with a
\* non-empty queue, a move() that changes current_floor moves it exactly one
\* floor closer to the head of the queue at the time of the call; the
\* elevator never steps away from the head, in particular not when the head
\* is the current floor.
C19_MoveTowardHead ==
  (op[1] = "move" /\ entry.queue # <<>>
     /\ current_floor # entry.current_floor) =>
    LET head == entry.queue[1]
    IN  /\ head # entry.current_floor
        /\ current_floor - entry.current_floor
             = Sign(head - entry.current_floor)

\* The same restricted to calls made with the head on another floor.
C19_MoveTowardHeadWhenAway ==
  (op[1] = "move" /\ entry.queue # <<>>
     /\ entry.queue[1] # entry.current_floor) =>
    C19_MoveTowardHead

\* An elevator with an observer object steps away from a head that is the
\* floor it stands on.
C19_SteppedAway ==
  /\ op[1] = "move"
  /\ observer # DefaultObserver
  /\ entry.queue # <<>>
  /\ entry.queue[1] = entry.current_floor
  /\ current_floor # entry.current_floor

\* C20 - The queue stays in SCAN order: in every reachable state with
\* direction Up or Down the queue is sorted ascending by the tie-break key
\* computed from the present current_floor and direction, after insertion
\* and also after every move() and every door opening.
C20_QueueScanOrder ==
  direction \in {UP, DOWN} =>
    \A i, j \in 1..Len(queue) :
      i < j => key_func(queue[i], current_floor, direction)
                 <= key_func(queue[j], current_floor, direction)

\* move() has turned the elevator round and opened the doors with floors
\* still queued.
C20_Witness ==
  /\ op[1] = "move"
  /\ direction # entry.direction
  /\ entry.direction # IDLE /\ direction # IDLE
  /\ Emitted("on_open_doors")
  /\ Len(queue) >= 2

\* move() has stepped with floors queued ahead and behind.
C20_WitnessBothSides ==
  /\ op[1] = "move"
  /\ current_floor # entry.current_floor
  /\ direction = UP
  /\ \E i, j \in 1..Len(queue) : queue[i] > current_floor
                                   /\ queue[j] < current_floor

\* The list l without the floor x, the other floors in their order.
Without(l, x) == SelectSeq(l, LAMBDA y : y # x)

\* C12 - Arrival removes from queue: whenever the doors are opened while not
\* moving and with current_floor queued, afterwards is_open is true,
\* current_floor is no longer in the queue and the other queued floors keep
\* their relative order; current_floor and is_moving are unchanged.
C12_ArrivalRemovesFromQueue ==
  (op[1] = "_open_the_doors" /\ ~entry.is_moving
     /\ InList(entry.current_floor, entry.queue)) =>
    /\ is_open
    /\ ~InList(current_floor, queue)
    /\ queue = Without(entry.queue, entry.current_floor)
    /\ current_floor = entry.current_floor
    /\ is_moving = entry.is_moving

\* The doors open at a floor that was queued between two others.
C12_Witness ==
  /\ op[1] = "_open_the_doors"
  /\ ~entry.is_open /\ ~entry.is_moving
  /\ Len(entry.queue) >= 3
  /\ entry.queue[2] = entry.current_floor
  /\ is_open
  /\ Len(queue) = Len(entry.queue) - 1

\* The same seen from the callers: a move() or call_floor() that opened the
\* doors leaves them open, the elevator stopped and the floor out of the queue.
C12_ArrivalInCallers ==
  (op[1] \in {"move", "call_floor"} /\ Emitted("on_open_doors")) =>
    /\ is_open /\ ~is_moving
    /\ ~InList(current_floor, queue)
    /\ queue = Without(entry.queue, current_floor)

\* The largest floor of a non-empty list.
Highest(l) == CHOOSE x \in Range(l) : \A y \in Range(l) : y <= x

\* Draining began with the doors closed and every queued floor above the
\* floor the elevator was on.
UpwardRun ==
  /\ draining
  /\ ~drain_from[3]
  /\ drain_from[4] # <<>>
  /\ \A x \in Range(drain_from[4]) : x > drain_from[1]

\* C17 - Upward run timing: for an elevator with doors closed at floor c whose
\* queued floors are all above c and with no further calls, the k-th move()
\* (1 <= k <= highest queued floor - c) leaves it at floor c+k with direction
\* Up, doors open and is_moving false if c+k was queued, doors closed and
\* is_moving true otherwise; the first move() after reaching the highest
\* queued floor sets direction to Idle without changing the floor.
C17_UpwardRunTiming ==
  (UpwardRun /\ moves >= 1) =>
    LET c   == drain_from[1]
        top == Highest(drain_from[4])
    IN  /\ moves <= top - c =>
             /\ current_floor = c + moves
             /\ direction = UP
             /\ IF InList(c + moves, drain_from[4])
                  THEN is_open /\ ~is_moving
                  ELSE ~is_open /\ is_moving
        /\ moves = top - c + 1 =>
             /\ direction = IDLE
             /\ current_floor = top

\* The same for an elevator that was given an observer object.
C17_UpwardRunTimingWithObserver ==
  observer # DefaultObserver => C17_UpwardRunTiming

\* A run with an observer object passes a floor that is not queued, after
\* having stopped at one that was.
C17_WitnessPassing ==
  /\ observer # DefaultObserver
  /\ UpwardRun
  /\ op[1] = "move"
  /\ moves = 2
  /\ InList(drain_from[1] + 1, drain_from[4])
  /\ ~is_open /\ is_moving

\* A run with an observer object ends Idle at its highest floor.
C17_WitnessEnd ==
  /\ observer # DefaultObserver
  /\ UpwardRun
  /\ op[1] = "move"
  /\ moves = Highest(drain_from[4]) - drain_from[1] + 1
  /\ moves >= 3
  /\ direction = IDLE

\* C25 - State coupling invariant: in every state between public operations,
\* direction Idle implies the queue is empty, and an empty queue implies
\* is_moving is false (so is_moving is true only while the queue is non-empty
\* and direction is Up or Down).
C25_StateCoupling ==
  /\ direction = IDLE => queue = <<>>
  /\ queue = <<>> => ~is_moving
  /\ is_moving => (queue # <<>> /\ direction \in {UP, DOWN})

\* The last queued floor has just been served: the queue is empty, the
\* elevator has stopped and the direction is still the one it arrived with.
C25_Witness ==
  /\ op[1] = "move"
  /\ entry.is_moving
  /\ queue = <<>>
  /\ ~is_moving
  /\ direction # IDLE

\* C26 - Frame of call_floor: call_floor never changes current_floor,
\* is_moving or the passenger set; when direction is Up or Down on entry it
\* also leaves direction and is_open unchanged and its only effect is
\* inserting the floor (if absent) and re-sorting the queue; it never removes
\* any floor other than the requested one.
C26_CallFloorFrame ==
  op[1] = "call_floor" =>
    LET floor   == op[2]
        inRange == floor >= 1 /\ floor <= floors_count
        added   == IF inRange THEN {floor} ELSE {}
    IN  /\ current_floor = entry.current_floor
        /\ is_moving = entry.is_moving
        /\ passengers = entry.passengers
        /\ entry.direction \in {UP, DOWN} =>
             /\ direction = entry.direction
             /\ is_open = entry.is_open
             /\ events = <<>>
             /\ Range(queue) = Range(entry.queue) \cup added
             /\ Len(queue) = Cardinality(Range(queue))
             /\ InList(floor, entry.queue) => queue = entry.queue
             /\ queue = SortByKey(queue, current_floor, direction)
        /\ Range(entry.queue) \ {floor} \subseteq Range(queue)

\* A floor behind the elevator is inserted between two queued floors while it
\* travels upwards with passengers aboard.
C26_Witness ==
  /\ op[1] = "call_floor"
  /\ entry.direction = UP
  /\ entry.is_moving
  /\ passengers # {}
  /\ Len(entry.queue) = 2
  /\ Len(queue) = 3
  /\ queue[2] = op[2]

\* C22 - Defensive checks leave state unchanged: opening the doors while
\* is_moving is true fails with OpenedWhileMoving without changing the queue,
\* is_open or is_moving; starting to move while is_open is true fails with
\* MovedWithOpenDoors without changing is_moving, is_open or current_floor.
C22_DefensiveChecks ==
  /\ (op[1] = "_open_the_doors" /\ entry.is_moving) =>
       /\ err = "ElevatorIsOpenedTheDoorsWhileMoving"
       /\ queue = entry.queue
       /\ is_open = entry.is_open
       /\ is_moving = entry.is_moving
  /\ (op[1] = "_start_moving" /\ entry.is_open) =>
       /\ err = "ElevatorIsMoveWithOpenDoors"
       /\ is_moving = entry.is_moving
       /\ is_open = entry.is_open
       /\ current_floor = entry.current_floor

\* _start_moving is refused on an elevator whose doors _open_the_doors has
\* just opened.
C22_Witness ==
  /\ op[1] = "_start_moving"
  /\ entry.is_open
  /\ err = "ElevatorIsMoveWithOpenDoors"
  /\ ~is_moving
  /\ entry.queue # <<>>

\* _open_the_doors is refused on a moving elevator standing at a queued floor.
C22_WitnessOpenRefused ==
  /\ op[1] = "_open_the_doors"
  /\ entry.is_moving
  /\ InList(entry.current_floor, entry.queue)
  /\ err = "ElevatorIsOpenedTheDoorsWhileMoving"
  /\ InList(current_floor, queue)

\* The notifications the order rule gives one move(): from the doors on
\* entry, the direction after recomputation and the floor it ends on.
MoveEvents ==
  (IF entry.is_open THEN <<"on_close_doors">> ELSE <<>>)
  \o (IF direction # IDLE THEN <<"on_moving">> ELSE <<>>)
  \o (IF InList(current_floor, entry.queue)
        THEN <<"on_stop", "on_open_doors">>
        ELSE <<>>)

\* C23 - Observer event order within one move(): on_close_doors (iff the
\* doors were open on entry), on_moving (iff direction is not Idle after
\* recomputation, on every such step), then on_stop immediately followed by
\* on_open_doors (both iff the resulting floor is queued); never on_open_doors
\* without on_stop directly before it, never on_stop without an earlier
\* on_moving in the same call.
C23_MoveEventOrder ==
  op[1] = "move" =>
    /\ events = MoveEvents
    /\ \A i \in 1..Len(events) :
         /\ events[i] = "on_open_doors" =>
              (i > 1 /\ events[i - 1] = "on_stop")
         /\ events[i] = "on_stop" =>
              \E j \in 1..(i - 1) : events[j] = "on_moving"

\* The same for an elevator that was given an observer object.
C23_MoveEventOrderWithObserver ==
  observer # DefaultObserver => C23_MoveEventOrder

\* A move() of an elevator with an observer object that was already moving
\* notifies on_moving again and then stops and opens the doors.
C23_WitnessMovingAgain ==
  /\ op[1] = "move"
  /\ observer # DefaultObserver
  /\ entry.is_moving
  /\ events = <<"on_moving", "on_stop", "on_open_doors">>

\* All four notifications in one move().
C23_WitnessAllFour ==
  /\ op[1] = "move"
  /\ events = <<"on_close_doors", "on_moving", "on_stop", "on_open_doors">>
  /\ current_floor # entry.current_floor

\* The elevator stands at floor f with the doors open and f out of the queue.
Served(f) == current_floor = f /\ is_open /\ ~InList(f, queue)

\* C21 - No starvation under continuing requests: if move() is called
\* infinitely often, every floor that is in the queue is eventually served
\* (reached with doors open and removed from the queue), even when further
\* in-range call_floor requests keep arriving between moves.
C21_NoStarvation ==
  \A f \in 1..floors_count : InList(f, queue) ~> Served(f)

\* The same for an elevator that was given an observer object.
C21_NoStarvationWithObserver ==
  \A f \in 1..floors_count :
    (observer # DefaultObserver /\ InList(f, queue)) ~> Served(f)

\* With an observer object and once the requests have stopped, every queued
\* floor is served.
C21_ServedOnceCallsStop ==
  \A f \in 1..floors_count :
    (observer # DefaultObserver /\ draining /\ InList(f, queue)) ~> Served(f)

\* How many times the notification e was emitted during the last call.
Count(e) == Cardinality({i \in 1..Len(events) : events[i] = e})

BrokenElevator ==
  {"ElevatorIsOpenedTheDoorsWhileMoving", "ElevatorIsMoveWithOpenDoors"}

\* C24 - Bounded re-entrancy of boarding: when the observer's on_open_doors
\* callback re-entrantly alights the passengers whose destination is the
\* current floor and boards the waiting passengers of that floor via
\* enter_elevator (destination different from origin), no nested
\* on_open_doors is triggered, no OpenedWhileMoving or MovedWithOpenDoors is
\* raised, and when the outer move() or call_floor returns the doors are
\* open, is_moving is false and the number aboard is <= max_capacity.
C24_BoundedReentrancy ==
  (op[1] \in {"move", "call_floor"} /\ Emitted("on_open_doors")) =>
    /\ Count("on_open_doors") = 1
    /\ err \notin BrokenElevator
    /\ \A i \in 1..Len(caught) : caught[i] \notin BrokenElevator
    /\ is_open
    /\ ~is_moving
    /\ Cardinality(passengers) <= max_capacity

\* move() opens the doors of a full elevator and the passenger waiting there
\* is refused inside the callback.
C24_Witness ==
  /\ op[1] = "move"
  /\ Emitted("on_open_doors")
  /\ caught = <<"ElevatorIsFullException">>
  /\ passengers_skipped_elevator # <<>>
  /\ Cardinality(passengers) = max_capacity

\* During one move() a passenger leaves and another enters.
C24_WitnessExitAndEnter ==
  /\ op[1] = "move"
  /\ Emitted("on_open_doors")
  /\ Emitted("on_passenger_exit")
  /\ Emitted("on_passenger_enter")

\* A call_floor on the idle elevator opens the doors and the passenger who
\* was waiting there enters and requests another floor.
C24_WitnessCallFloor ==
  /\ op[1] = "call_floor"
  /\ entry.direction = IDLE
  /\ Emitted("on_open_doors")
  /\ Emitted("on_passenger_enter")
  /\ queue # <<>>
====
